---- MODULE Spec2Model ----
(***************************************************************************)
(* Model of src/app.py: the scenario function                              *)
(* construye_escenario_targets, the module-level parameters it reads and   *)
(* the chart / summary code that consumes its result.                      *)
(*                                                                         *)
(* Numbers.  The program computes in IEEE-754 doubles (Python floats and   *)
(* numpy float64 arrays).  A number is modelled as a record                *)
(*     [k |-> "fin", n |-> numerator, d |-> denominator]   (n/d, reduced)  *)
(*     [k |-> "inf", n |-> 1 or -1,   d |-> 1]             (+inf, -inf)    *)
(*     [k |-> "nan", n |-> 0,         d |-> 1]                             *)
(* Finite arithmetic is exact (rounding error is not modelled); the        *)
(* non-finite values follow IEEE-754 as numpy produces them: numpy array   *)
(* division by zero does not raise, it yields inf or nan.  The sign of     *)
(* zero is not modelled (every zero is +0).                                *)
(*                                                                         *)
(* Arrays.  numpy arrays that the code updates in place (ebit_sin,         *)
(* ebit_con, ahorro) live in `heap`; a variable of the program holds a     *)
(* reference (an index of heap).  Month i of an array is element i+1.      *)
(***************************************************************************)
EXTENDS Integers, Sequences, FiniteSets, TLC

\* ------------------------------------------------------------------ bounds
MaxCommodities == 2
MaxHoriz == 2
MaxCalls == 2

\* ------------------------------------------------------- float arithmetic
Abs(x) == IF x < 0 THEN -x ELSE x

RECURSIVE GCD(_, _)
GCD(a, b) == IF b = 0 THEN a ELSE GCD(b, a % b)

Fin(n, d) ==
    LET s == IF d < 0 THEN -1 ELSE 1
        g == GCD(Abs(n), Abs(d))
    IN  [k |-> "fin", n |-> (s * n) \div g, d |-> (s * d) \div g]

Flt(n) == [k |-> "fin", n |-> n, d |-> 1]
NaN == [k |-> "nan", n |-> 0, d |-> 1]
Inf(s) == [k |-> "inf", n |-> s, d |-> 1]
Zero == Flt(0)
One == Flt(1)

Sgn(x) == IF x.n > 0 THEN 1 ELSE IF x.n < 0 THEN -1 ELSE 0
IsFinite(x) == x.k = "fin"

FNeg(a) == IF a.k = "nan" THEN NaN ELSE [a EXCEPT !.n = -a.n]

FAdd(a, b) ==
    IF a.k = "nan" \/ b.k = "nan" THEN NaN
    ELSE IF a.k = "inf" /\ b.k = "inf" THEN (IF a.n = b.n THEN a ELSE NaN)
    ELSE IF a.k = "inf" THEN a
    ELSE IF b.k = "inf" THEN b
    ELSE Fin(a.n * b.d + b.n * a.d, a.d * b.d)

FSub(a, b) == FAdd(a, FNeg(b))

FMul(a, b) ==
    IF a.k = "nan" \/ b.k = "nan" THEN NaN
    ELSE IF a.k = "inf" \/ b.k = "inf"
         THEN (IF Sgn(a) = 0 \/ Sgn(b) = 0 THEN NaN ELSE Inf(Sgn(a) * Sgn(b)))
    ELSE Fin(a.n * b.n, a.d * b.d)

\* numpy true_divide: x/0 is inf (x # 0) or nan (x = 0), never an exception
FDiv(a, b) ==
    IF a.k = "nan" \/ b.k = "nan" THEN NaN
    ELSE IF b.k = "inf" THEN (IF a.k = "inf" THEN NaN ELSE Zero)
    ELSE IF Sgn(b) = 0 THEN (IF Sgn(a) = 0 THEN NaN ELSE Inf(Sgn(a)))
    ELSE IF a.k = "inf" THEN Inf(Sgn(a) * Sgn(b))
    ELSE Fin(a.n * b.d, a.d * b.n)

\* IEEE comparisons: every comparison with nan is false
FEq(a, b) == a.k # "nan" /\ b.k # "nan" /\ a = b
FLt(a, b) ==
    /\ a.k # "nan" /\ b.k # "nan"
    /\ IF a.k = "inf" THEN a.n = -1 /\ b # a
       ELSE IF b.k = "inf" THEN b.n = 1
       ELSE a.n * b.d < b.n * a.d
FGt(a, b) == FLt(b, a)
FLe(a, b) == FLt(a, b) \/ FEq(a, b)

\* ------------------------------------------------------- array arithmetic
\* elementwise numpy operations on float64 arrays (sequences of numbers)
ArrAdd(x, y) == [i \in 1..Len(x) |-> FAdd(x[i], y[i])]
ArrSub(x, y) == [i \in 1..Len(x) |-> FSub(x[i], y[i])]
ArrDivS(x, s) == [i \in 1..Len(x) |-> FDiv(x[i], s)]
ArrSubS(x, s) == [i \in 1..Len(x) |-> FSub(x[i], s)]
SMulArr(s, x) == [i \in 1..Len(x) |-> FMul(s, x[i])]
\* the comparison of the shading mask turned around
ArrLt(x, y) == [i \in 1..Len(x) |-> FLt(x[i], y[i])]
ArrGt(x, y) == [i \in 1..Len(x) |-> FGt(x[i], y[i])]

np_full(n, v) == [i \in 1..n |-> v]
np_zeros(n) == [i \in 1..n |-> Zero]
np_arange(n) == [i \in 1..n |-> i - 1]

\* linspace with endpoint=False: the interval is cut in num steps
linspace_open(start, stop, num) ==
    LET step == FDiv(FSub(stop, start), Flt(num))
    IN  [i \in 1..num |-> FAdd(FMul(Flt(i - 1), step), start)]

\* linspace that forgets to add start to the interior points
linspace_nostart(start, stop, num) ==
    LET div == num - 1
        delta == FSub(stop, start)
        y == [i \in 1..num |->
                 IF div > 0 THEN FMul(Flt(i - 1), FDiv(delta, Flt(div)))
                 ELSE start]
    IN  IF num > 1 THEN [y EXCEPT ![num] = stop] ELSE y

\* numpy.linspace(start, stop, num) with endpoint=True
linspace(start, stop, num) ==
    LET div == num - 1
        delta == FSub(stop, start)
        step == IF div > 0 THEN FDiv(delta, Flt(div)) ELSE NaN
        y == [i \in 1..num |->
                 IF div > 0
                 THEN (IF FEq(step, Zero)
                       THEN FMul(FDiv(Flt(i - 1), Flt(div)), delta)
                       ELSE FMul(Flt(i - 1), step))
                 ELSE FMul(Flt(i - 1), delta)]
        z == [i \in 1..num |-> FAdd(y[i], start)]
    IN  IF num > 1 THEN [z EXCEPT ![num] = stop] ELSE z

\* ------------------------------------------------- parameters (lines 45-86)
\* keys of base_commodities in insertion order
Names == <<"UREA", "METANOL", "MADERA">>

\* the values the parameters and the targets are drawn from
P0Values == {Flt(2)}
P0AnyValues == {Flt(-1), Zero, Flt(2)}
VSValues == {Flt(-1), Flt(2)}
VSDeployed == {Flt(2)}
R2Values == {Zero, Fin(1, 2), One}
EbitBaseValues == {Flt(7)}
TargetValues == {Flt(1), Flt(2), Flt(3)}

\* an ordered dict name -> {P0, VS, R2} is the sequence of its items
CommodityDicts(P0s, VSs, R2s) ==
    UNION { { [i \in 1..n |-> [name |-> Names[i], P0 |-> f[i].P0,
                               VS |-> f[i].VS, R2 |-> f[i].R2]] :
              f \in [1..n -> [P0 : P0s, VS : VSs, R2 : R2s]] } :
            n \in 1..MaxCommodities }

KeysOf(bc) == {bc[i].name : i \in 1..Len(bc)}

\* the mappings a caller can pass as target_prices
TargetDicts(bc) == UNION { [S -> TargetValues] : S \in SUBSET KeysOf(bc) }

\* --------------------------------------- loop body of the scenario function
path_of(P0, P_T, H) == linspace(P0, P_T, H + 1)
rel_of(path, P0) == ArrDivS(path, P0)
delta_costo_of(VS, rel) == SMulArr(VS, ArrSubS(rel, One))
\* ebit_sin assigned from the base instead of accumulated
ebit_sin_overwrite(a, dc) == ArrSub([i \in 1..Len(a) |-> a[1]], dc)
ebit_sin_step(a, dc) == ArrSub(a, dc)
\* the hedged share R2 taken for the residual share 1 - R2
ebit_con_hedged_share(a, R2, dc) == ArrSub(a, SMulArr(R2, dc))
ebit_con_step(a, R2, dc) == ArrSub(a, SMulArr(FSub(One, R2), dc))
\* the whole delta_costo booked as saving
ahorro_unweighted(a, R2, dc) == ArrAdd(a, dc)
ahorro_step(a, R2, dc) == ArrAdd(a, SMulArr(R2, dc))

\* ebit_con created with np.zeros instead of np.full
LocalsInit_zeros(ebit0, H) ==
    [precios |-> <<>>,
     ebit_sin |-> np_full(H + 1, ebit0),
     ebit_con |-> np_zeros(H + 1),
     ahorro |-> np_zeros(H + 1),
     err |-> ""]

\* the locals before the loop (lines 93-96), as values
LocalsInit(ebit0, H) ==
    [precios |-> <<>>,
     ebit_sin |-> np_full(H + 1, ebit0),
     ebit_con |-> np_full(H + 1, ebit0),
     ahorro |-> np_zeros(H + 1),
     err |-> ""]

\* one iteration of the for loop (lines 99-112) for an item with a target
LoopBody(loc, base, P_T, H) ==
    LET path == path_of(base.P0, P_T, H)
        rel == rel_of(path, base.P0)
        delta_costo == delta_costo_of(base.VS, rel)
    IN  [precios |-> (base.name :> path) @@ loc.precios,
         ebit_sin |-> ebit_sin_step(loc.ebit_sin, delta_costo),
         ebit_con |-> ebit_con_step(loc.ebit_con, base.R2, delta_costo),
         ahorro |-> ahorro_step(loc.ahorro, base.R2, delta_costo),
         err |-> ""]

\* target_prices[name] raises KeyError(name) when the key is absent
HasTarget(tp, name) == name \in DOMAIN tp

RECURSIVE LoopFrom(_, _, _, _, _)
LoopFrom(bc, tp, H, k, loc) ==
    IF k > Len(bc) THEN loc
    ELSE IF ~HasTarget(tp, bc[k].name) THEN [loc EXCEPT !.err = bc[k].name]
    ELSE LoopFrom(bc, tp, H, k + 1, LoopBody(loc, bc[k], tp[bc[k].name], H))

DataFrame(data, index) == [index |-> index, name |-> "Mes", columns |-> data]

\* the function as a whole, on values: its outputs, or err = the missing key
Escenario(bc, ebit0, H, tp) ==
    LET loc == LoopFrom(bc, tp, H, 1, LocalsInit(ebit0, H))
    IN  [err |-> loc.err,
         precios_df |-> DataFrame(loc.precios, np_arange(H + 1)),
         ebit_sin |-> loc.ebit_sin,
         ebit_con |-> loc.ebit_con,
         ahorro |-> loc.ahorro]

\* ------------------------------------------------------------------- state
VARIABLES
    base_commodities,  \* module dict, as a sequence of items
    EBIT_base,
    horiz_meses,
    meses,
    targets,           \* the caller's mapping passed as target_prices
    pc,                \* "idle", "loop", "returned", "raised", "rendered"
    idx,               \* position of the for loop in base_commodities
    heap,              \* the arrays updated in place
    precios,           \* local dict name -> path
    ebit_sin, ebit_con, ahorro,   \* locals: references into heap
    result,            \* the names bound at line 163
    err,               \* key of the KeyError that left the function, or ""
    where_mask,        \* fill_between's where= argument (line 176)
    gap_final,         \* line 216
    history            \* finished calls: arguments, outputs as returned

vars == <<base_commodities, EBIT_base, horiz_meses, meses, targets, pc, idx,
          heap, precios, ebit_sin, ebit_con, ahorro, result, err,
          where_mask, gap_final, history>>

params == <<base_commodities, EBIT_base, horiz_meses, meses>>

NoResult == [bound |-> FALSE, precios_df |-> DataFrame(<<>>, <<>>),
             ebit_sin |-> 0, ebit_con |-> 0, ahorro |-> 0]

InitWith(P0s, VSs, R2s) ==
    /\ base_commodities \in CommodityDicts(P0s, VSs, R2s)
    /\ EBIT_base \in EbitBaseValues
    /\ horiz_meses \in 0..MaxHoriz
    /\ meses = np_arange(horiz_meses + 1)
    /\ targets = <<>>
    /\ pc = "idle"
    /\ idx = 0
    /\ heap = <<>>
    /\ precios = <<>>
    /\ ebit_sin = 0 /\ ebit_con = 0 /\ ahorro = 0
    /\ result = NoResult
    /\ err = ""
    /\ where_mask = <<>>
    /\ gap_final = NaN
    /\ history = <<>>

\* spot prices as the data model requires them: positive
Init == InitWith(P0Values, VSValues, R2Values)
\* any spot price, zero and negative included
InitAnyP0 == InitWith(P0AnyValues, VSDeployed, R2Values)

\* ----------------------------------------------------------------- actions
\* module-level buffers: every call works in the same three arrays
SharedRef(h, k) == k

\* a new array object: the reference of the k-th array allocated by a call
FreshRef(h, k) == Len(h) + k

Store(h, r, arr) == IF r > Len(h) THEN Append(h, arr) ELSE [h EXCEPT ![r] = arr]

\* entry of the function: lines 93-96
Enter(tp) ==
    LET r1 == FreshRef(heap, 1)
        r2 == FreshRef(heap, 2)
        r3 == FreshRef(heap, 3)
        loc == LocalsInit(EBIT_base, horiz_meses)
    IN  /\ targets' = tp
        /\ precios' = loc.precios
        /\ heap' = Store(Store(Store(heap, r1, loc.ebit_sin), r2, loc.ebit_con),
                         r3, loc.ahorro)
        /\ ebit_sin' = r1 /\ ebit_con' = r2 /\ ahorro' = r3
        /\ idx' = 1
        /\ pc' = "loop"
        /\ err' = ""
        /\ UNCHANGED <<params, result, where_mask, gap_final, history>>

\* line 163: the script calls the function with the slider values
Call ==
    /\ pc = "idle"
    /\ \E tp \in TargetDicts(base_commodities) : Enter(tp)

\* a further call in the same process
CallAgain ==
    /\ pc \in {"rendered", "raised"}
    /\ Len(history) < MaxCalls
    /\ \E tp \in TargetDicts(base_commodities) : Enter(tp)

Locals == [precios |-> precios, ebit_sin |-> heap[ebit_sin],
           ebit_con |-> heap[ebit_con], ahorro |-> heap[ahorro], err |-> ""]

\* one pass of the loop body, lines 98-112
LoopIterate ==
    /\ pc = "loop"
    /\ idx <= Len(base_commodities)
    /\ HasTarget(targets, base_commodities[idx].name)
    /\ LET base == base_commodities[idx]
           loc == LoopBody(Locals, base, targets[base.name], horiz_meses)
       IN  /\ precios' = loc.precios
           /\ heap' = [heap EXCEPT ![ebit_sin] = loc.ebit_sin,
                                   ![ebit_con] = loc.ebit_con,
                                   ![ahorro] = loc.ahorro]
    /\ idx' = idx + 1
    /\ UNCHANGED <<params, targets, pc, ebit_sin, ebit_con, ahorro, result,
                   err, where_mask, gap_final, history>>

\* a commodity without a target is skipped (target_prices.get / continue)
LoopSkip ==
    /\ pc = "loop"
    /\ idx <= Len(base_commodities)
    /\ ~HasTarget(targets, base_commodities[idx].name)
    /\ idx' = idx + 1
    /\ UNCHANGED <<params, targets, pc, heap, precios, ebit_sin, ebit_con,
                   ahorro, result, err, where_mask, gap_final, history>>

\* line 102 raises KeyError: the exception leaves the function
LoopRaise ==
    /\ pc = "loop"
    /\ idx <= Len(base_commodities)
    /\ ~HasTarget(targets, base_commodities[idx].name)
    /\ err' = base_commodities[idx].name
    /\ pc' = "raised"
    /\ history' = Append(history, [targets |-> targets, err |-> err',
                                   out |-> NoResult, values |-> <<>>])
    /\ UNCHANGED <<params, targets, idx, heap, precios, ebit_sin, ebit_con,
                   ahorro, result, where_mask, gap_final>>

\* lines 114-117 and the tuple assignment of line 163
Return ==
    /\ pc = "loop"
    /\ idx > Len(base_commodities)
    /\ result' = [bound |-> TRUE, precios_df |-> DataFrame(precios, meses),
                  ebit_sin |-> ebit_sin, ebit_con |-> ebit_con,
                  ahorro |-> ahorro]
    /\ pc' = "returned"
    /\ history' = Append(history,
                    [targets |-> targets, err |-> "", out |-> result',
                     values |-> <<heap[ebit_sin], heap[ebit_con], heap[ahorro]>>])
    /\ UNCHANGED <<params, targets, idx, heap, precios, ebit_sin, ebit_con,
                   ahorro, err, where_mask, gap_final>>

\* lines 172-180 and 216: the shading mask and the summary value
Render ==
    /\ pc = "returned"
    /\ where_mask' = ArrGt(heap[result.ebit_sin], heap[result.ebit_con])
    /\ gap_final' = FSub(heap[result.ebit_con][Len(heap[result.ebit_con])],
                         heap[result.ebit_sin][Len(heap[result.ebit_sin])])
    /\ pc' = "rendered"
    /\ UNCHANGED <<params, targets, idx, heap, precios, ebit_sin, ebit_con,
                   ahorro, result, err, history>>

Next == Call \/ LoopIterate \/ LoopRaise \/ Return \/ Render
NextCalls == Call \/ CallAgain \/ LoopIterate \/ LoopRaise \/ Return \/ Render

\* one run of the script: one call, then the chart and the summary
Spec == Init /\ [][Next]_vars
\* the same with unrestricted spot prices
SpecAnyP0 == InitAnyP0 /\ [][Next]_vars
\* a process that calls the function repeatedly: the parameters are fixed
\* constants of the deployed kind (P0 > 0, VS > 0, 0 < R2 < 1)
FixedCommodities ==
    <<[name |-> "UREA", P0 |-> Flt(2), VS |-> Flt(2), R2 |-> Fin(1, 2)],
      [name |-> "METANOL", P0 |-> Flt(1), VS |-> Flt(3), R2 |-> Fin(1, 4)]>>

InitCalls ==
    /\ base_commodities = FixedCommodities
    /\ EBIT_base \in EbitBaseValues
    /\ horiz_meses \in 0..MaxHoriz
    /\ meses = np_arange(horiz_meses + 1)
    /\ targets = <<>>
    /\ pc = "idle"
    /\ idx = 0
    /\ heap = <<>>
    /\ precios = <<>>
    /\ ebit_sin = 0 /\ ebit_con = 0 /\ ahorro = 0
    /\ result = NoResult
    /\ err = ""
    /\ where_mask = <<>>
    /\ gap_final = NaN
    /\ history = <<>>
SpecCalls == InitCalls /\ [][NextCalls]_vars

TypeOK == pc \in {"idle", "loop", "returned", "raised", "rendered"}

\* ------------------------------------------------------------ observations
Returned == pc \in {"returned", "rendered"}
N == Len(base_commodities)
Months == 1..(horiz_meses + 1)
OutSin == heap[result.ebit_sin]
OutCon == heap[result.ebit_con]
OutAhorro == heap[result.ahorro]
OutPath(i) == result.precios_df.columns[base_commodities[i].name]
Target(i) == targets[base_commodities[i].name]
Moved(i) == ~FEq(Target(i), base_commodities[i].P0)

RECURSIVE SumTo(_, _)
\* f[1] + ... + f[n]
SumTo(f, n) == IF n = 0 THEN Zero ELSE FAdd(SumTo(f, n - 1), f[n])

\* C1: whenever the call has returned and no spot price is zero, at every
\* month ebit_con - ebit_sin equals ahorro.
C1_SavingsIdentity ==
    (Returned /\ \A c \in 1..N : ~FEq(base_commodities[c].P0, Zero))
    => /\ Len(OutSin) = horiz_meses + 1
       /\ \A i \in Months : FEq(FSub(OutCon[i], OutSin[i]), OutAhorro[i])

C1_Witness ==
    /\ Returned /\ N = 2 /\ horiz_meses >= 1
    /\ \E c \in 1..N : FLt(base_commodities[c].P0, Zero)
    /\ base_commodities[1].R2 # base_commodities[2].R2
    /\ Moved(1) /\ Moved(2)
    /\ ~FEq(OutAhorro[horiz_meses + 1], Zero)

\* C2: whenever the call has returned, the price table and the three series
\* have horiz_meses + 1 entries, and at month 0 both EBIT series equal
\* EBIT_base and ahorro is 0.
C2_LengthAndMonthZero ==
    Returned
    => /\ Len(result.precios_df.index) = horiz_meses + 1
       /\ \A c \in 1..N : Len(OutPath(c)) = horiz_meses + 1
       /\ Len(OutSin) = horiz_meses + 1
       /\ Len(OutCon) = horiz_meses + 1
       /\ Len(OutAhorro) = horiz_meses + 1
       /\ FEq(OutSin[1], EBIT_base)
       /\ FEq(OutCon[1], EBIT_base)
       /\ FEq(OutAhorro[1], Zero)

C2_Witness ==
    /\ Returned /\ horiz_meses >= 1 /\ N = 2
    /\ ~FEq(OutSin[horiz_meses + 1], EBIT_base)
    /\ ~FEq(OutCon[horiz_meses + 1], EBIT_base)

\* C3: a call whose targets lack a commodity of base_commodities ends in a
\* KeyError naming the first absent commodity and binds no output, also
\* after earlier commodities were accumulated; outputs exist only when every
\* commodity had a target, and then every commodity has its column.
FirstMissing(k) ==
    /\ ~HasTarget(targets, base_commodities[k].name)
    /\ \A j \in 1..(k - 1) : HasTarget(targets, base_commodities[j].name)

C3_MissingTarget ==
    /\ pc = "raised"
       => /\ \E k \in 1..N : FirstMissing(k) /\ err = base_commodities[k].name
          /\ ~result.bound
    /\ (pc # "idle" /\ \E k \in 1..N : FirstMissing(k))
       => ~Returned /\ ~result.bound
    /\ result.bound
       => DOMAIN result.precios_df.columns = KeysOf(base_commodities)

C3_Witness ==
    /\ pc = "raised" /\ idx = 2
    /\ err = base_commodities[2].name
    /\ ~result.bound
    /\ horiz_meses >= 1
    /\ ~FEq(heap[ebit_sin][horiz_meses + 1], EBIT_base)
    /\ DOMAIN precios = {base_commodities[1].name}

\* C4: a call with a commodity whose spot price is 0 never returns series.
C4_ZeroSpotNeverReturns ==
    (\E c \in 1..N : FEq(base_commodities[c].P0, Zero)) => ~Returned

\* C5: with horiz_meses >= 1 the returned path of every commodity starts at
\* P0, ends at its target, and is P0 + (target - P0) * i / horiz_meses at
\* month i.
C5_PathEndpoints ==
    (Returned /\ horiz_meses >= 1)
    => \A c \in 1..N :
          LET P0 == base_commodities[c].P0
              P_T == Target(c)
          IN  /\ OutPath(c)[1] = P0
              /\ OutPath(c)[horiz_meses + 1] = P_T
              /\ \A i \in Months :
                    OutPath(c)[i] =
                      FAdd(P0, FDiv(FMul(FSub(P_T, P0), Flt(i - 1)),
                                    Flt(horiz_meses)))

C5_Witness ==
    /\ Returned /\ horiz_meses >= 2 /\ N = 2
    /\ Moved(1) /\ Moved(2)
    /\ FEq(base_commodities[2].P0, Zero)
    /\ OutPath(1)[2] # OutPath(1)[1]

\* C6: when the call returns, its series are the sums of the
\* single-commodity runs: at every month, series - EBIT_base (the series
\* itself for ahorro) of the joint run equals the sum over commodities of
\* the same quantity of a run with that commodity alone; the reversed
\* iteration order gives the same series.
Single(c) == Escenario(<<base_commodities[c]>>, EBIT_base, horiz_meses, targets)
Reversed == [i \in 1..N |-> base_commodities[N + 1 - i]]

C6_Additivity ==
    pc = "returned"
    => LET single == [c \in 1..N |-> Single(c)]
           r == Escenario(Reversed, EBIT_base, horiz_meses, targets)
       IN  /\ \A i \in Months :
                /\ FEq(FSub(OutSin[i], EBIT_base),
                       SumTo([c \in 1..N |-> FSub(single[c].ebit_sin[i], EBIT_base)], N))
                /\ FEq(FSub(OutCon[i], EBIT_base),
                       SumTo([c \in 1..N |-> FSub(single[c].ebit_con[i], EBIT_base)], N))
                /\ FEq(OutAhorro[i],
                       SumTo([c \in 1..N |-> single[c].ahorro[i]], N))
           /\ r.ebit_sin = OutSin
           /\ r.ebit_con = OutCon
           /\ r.ahorro = OutAhorro

C6_Witness ==
    /\ pc = "returned" /\ N = 2 /\ horiz_meses >= 1
    /\ Moved(1) /\ Moved(2)
    /\ base_commodities[1] # [base_commodities[2] EXCEPT !.name = "UREA"]
    /\ ~FEq(Single(1).ebit_con[horiz_meses + 1], EBIT_base)
    /\ ~FEq(Single(2).ebit_con[horiz_meses + 1], EBIT_base)

\* C7: in every loop pass, a commodity with R2 = 0 leaves ahorro as it was
\* and lowers ebit_con by what it lowers ebit_sin; a commodity with R2 = 1
\* leaves ebit_con as it was and adds to ahorro what it takes from ebit_sin;
\* and when every R2 is 0 the returned ebit_con equals ebit_sin.
C7_Pass ==
    (pc = "loop" /\ idx' = idx + 1)
    => LET base == base_commodities[idx]
           dSin == ArrSub(heap'[ebit_sin], heap[ebit_sin])
           dCon == ArrSub(heap'[ebit_con], heap[ebit_con])
           dAho == ArrSub(heap'[ahorro], heap[ahorro])
       IN  /\ FEq(base.R2, Zero)
              => /\ \A i \in Months : FEq(dAho[i], Zero)
                 /\ \A i \in Months : FEq(dCon[i], dSin[i])
           /\ FEq(base.R2, One)
              => /\ \A i \in Months : FEq(dCon[i], Zero)
                 /\ \A i \in Months : FEq(dAho[i], FNeg(dSin[i]))
                 /\ heap'[ebit_con] = heap[ebit_con]

\* C7 (whole claim): every loop pass satisfies C7_Pass, and with every
\* R2 = 0 the returned ebit_con equals ebit_sin and ahorro is 0.
C7_R2Boundaries ==
    /\ [][C7_Pass]_vars
    /\ []((Returned /\ \A c \in 1..N : FEq(base_commodities[c].R2, Zero))
          => /\ OutCon = OutSin
             /\ \A i \in Months : FEq(OutAhorro[i], Zero))

C7_Witness ==
    /\ Returned /\ N = 2 /\ horiz_meses >= 1
    /\ FEq(base_commodities[1].R2, One)
    /\ FEq(base_commodities[2].R2, Zero)
    /\ Moved(1) /\ Moved(2)
    /\ ~FEq(OutAhorro[horiz_meses + 1], Zero)
    /\ ~FEq(OutCon[horiz_meses + 1], EBIT_base)

\* C8: no step changes base_commodities, EBIT_base, horiz_meses or meses;
\* while a call runs the caller's targets mapping stays as passed; the
\* arrays every finished call returned still hold what they held on return;
\* and calls with equal targets returned equal outputs.
C8_Frame ==
    /\ params' = params
    /\ pc = "loop" => targets' = targets

OutputsOf(h) == <<h.err, h.out.precios_df, h.values>>

C8_Kept ==
    /\ \A k \in 1..Len(history) :
          history[k].err = ""
          => /\ heap[history[k].out.ebit_sin] = history[k].values[1]
             /\ heap[history[k].out.ebit_con] = history[k].values[2]
             /\ heap[history[k].out.ahorro] = history[k].values[3]
    /\ \A j, k \in 1..Len(history) :
          history[j].targets = history[k].targets
          => OutputsOf(history[j]) = OutputsOf(history[k])

DeltaCostoOut(c) ==
    delta_costo_of(base_commodities[c].VS,
                   rel_of(OutPath(c), base_commodities[c].P0))

C9_MonotonicPath ==
    Returned
    => /\ \A c \in 1..N :
            LET P0 == base_commodities[c].P0
                P_T == Target(c)
                path == OutPath(c)
            IN  /\ FGt(P0, Zero)
                /\ \A i, j \in Months :
                      (i < j /\ horiz_meses >= 1)
                      => /\ FGt(P_T, P0) => FLt(path[i], path[j])
                         /\ FLt(P_T, P0) => FGt(path[i], path[j])
                         /\ FEq(P_T, P0) => FEq(path[i], P0) /\ FEq(path[j], P0)
                /\ (FEq(P_T, P0) /\ horiz_meses >= 1)
                   => \A i \in Months : FEq(DeltaCostoOut(c)[i], Zero)
       /\ (horiz_meses >= 1 /\ \A c \in 1..N : ~Moved(c))
          => \A i \in Months : /\ FEq(OutSin[i], EBIT_base)
                               /\ FEq(OutCon[i], EBIT_base)
                               /\ FEq(OutAhorro[i], Zero)

C9_Witness ==
    /\ Returned /\ N = 2 /\ horiz_meses >= 2
    /\ FGt(Target(1), base_commodities[1].P0)
    /\ FLt(Target(2), base_commodities[2].P0)

\* C10: with every VS > 0, every R2 strictly between 0 and 1 and every
\* P0 > 0 (and the horizon at least one month), once the chart is drawn the
\* shading mask is set at month i exactly when ahorro[i] < 0; if every
\* target is within its slider's range and not below spot then
\* ebit_sin <= ebit_con <= EBIT_base at every month, no month is shaded and
\* gap_final >= 0; if every target is below spot then gap_final < 0 and every
\* month from 1 on is shaded.
SliderMin(name) == IF name = "MADERA" THEN Fin(7, 10) ELSE Fin(1, 2)
SliderMax(name) == Flt(2)
SliderPermits(c) ==
    LET base == base_commodities[c]
    IN  /\ FLe(FMul(SliderMin(base.name), base.P0), Target(c))
        /\ FLe(Target(c), FMul(SliderMax(base.name), base.P0))

Deployed ==
    \A c \in 1..N :
        /\ FGt(base_commodities[c].VS, Zero)
        /\ FGt(base_commodities[c].R2, Zero)
        /\ FLt(base_commodities[c].R2, One)
        /\ FGt(base_commodities[c].P0, Zero)

C10_Shading ==
    (pc = "rendered" /\ Deployed /\ horiz_meses >= 1)
    => /\ \A i \in Months : where_mask[i] <=> FLt(OutAhorro[i], Zero)
       /\ (\A c \in 1..N : SliderPermits(c) /\ FLe(base_commodities[c].P0, Target(c)))
          => /\ \A i \in Months : /\ FLe(OutSin[i], OutCon[i])
                                  /\ FLe(OutCon[i], EBIT_base)
                                  /\ ~where_mask[i]
             /\ FLe(Zero, gap_final)
       /\ (\A c \in 1..N : FLt(Target(c), base_commodities[c].P0))
          => /\ FLt(gap_final, Zero)
             /\ \A i \in Months : i >= 2 => where_mask[i]

C10_Witness ==
    /\ pc = "rendered" /\ Deployed /\ horiz_meses >= 2 /\ N = 2
    /\ \A c \in 1..N : SliderPermits(c) /\ FLt(Target(c), base_commodities[c].P0)
    /\ where_mask[2] /\ FLt(gap_final, Zero)

====
